---- MODULE Spec2Model ----
(***************************************************************************)
(* A model of client/components/SettingsModal.tsx: the settings dialog     *)
(* with its display-name editor, dark-mode toggle and logout, together     *)
(* with the collaborators its handlers talk to (Firestore document,        *)
(* Firebase auth, document.documentElement, localStorage, toast, router).  *)
(*                                                                         *)
(* Strings are sequences of one-character strings, so that slice and trim  *)
(* are computed and not assumed.  Every asynchronous handler is split at   *)
(* its await: the click issues a request, the collaborator answers it, and *)
(* the continuation of the handler runs on the answer.                     *)
(***************************************************************************)
EXTENDS Integers, Sequences, FiniteSets, TLC

VARIABLES
    isOpen,       \* prop isOpen of the dialog
    user,         \* useAuth().user: "null" or a uid
    userData,     \* useAuth().userData: [displayName]
    displayName,  \* useState: the draft display name
    darkMode,     \* useState: the local dark-mode flag
    isSaving,     \* useState
    hasChanges,   \* useState: the dirty flag
    saveSuccess,  \* useState: the just-saved flag
    store,        \* the user's Firestore document
    marker,       \* document.documentElement.classList contains "dark"
    cache,        \* localStorage["darkMode"]: "none", "true" or "false"
    toggles,      \* handleDarkModeToggle activations suspended at their await
    saves,        \* handleSaveChanges activations suspended at their await
    timers,       \* pending setTimeout(() => setSaveSuccess(false), 2000)
    logouts,      \* handleLogout activations suspended at their await
    session,      \* Firebase auth session: "active" or "ended"
    out           \* what the latest step handed to toast, navigate, onOpenChange

vars == <<isOpen, user, userData, displayName, darkMode, isSaving, hasChanges,
          saveSuccess, store, marker, cache, toggles, saves, timers, logouts,
          session, out>>

-----------------------------------------------------------------------------
(* Bounds of the model *)

MaxRawLen == 11    \* longest raw text typed into the input
MaxToggles == 2    \* dark-mode persist requests in flight
MaxSaves == 2      \* display-name persist requests in flight
MaxTimers == 2     \* pending saveSuccess timers
MaxLogouts == 2    \* signOut requests in flight

(* Program constants *)

NameLimit == 10    \* e.target.value.slice(0, 10)

-----------------------------------------------------------------------------
(* Strings *)

Min(a, b) == IF a < b THEN a ELSE b

Rep(c, n) == [i \in 1..n |-> c]

Whitespace == {" "}

\* String.prototype.slice(0, n)
Slice0(s, n) == SubSeq(s, 1, Min(Len(s), n))

RECURSIVE TrimStart(_)
TrimStart(s) ==
    IF s = <<>> THEN s
    ELSE IF Head(s) \in Whitespace THEN TrimStart(Tail(s)) ELSE s

RECURSIVE TrimEnd(_)
TrimEnd(s) ==
    IF s = <<>> THEN s
    ELSE IF s[Len(s)] \in Whitespace THEN TrimEnd(SubSeq(s, 1, Len(s) - 1)) ELSE s

\* String.prototype.trim()
Trim(s) == TrimEnd(TrimStart(s))

\* s without its i-th element
Remove(s, i) == SubSeq(s, 1, i - 1) \o SubSeq(s, i + 1, Len(s))

\* s with its i-th element replaced
Replace(s, i, x) == [s EXCEPT ![i] = x]

-----------------------------------------------------------------------------
(* Inputs *)

RawLens == {0, 2} \cup ((NameLimit + 1)..MaxRawLen)

\* e.target.value: raw texts of letters, of blanks, and a padded name
RawInputs ==
    {Rep("a", n) : n \in RawLens} \cup {Rep(" ", n) : n \in RawLens}
        \cup {<<" ", "b", " ">>}

\* UserProfile.displayName: 0 to 10 code units
ProfileNames == {<<>>, <<"c">>, Rep("d", NameLimit)}

-----------------------------------------------------------------------------
(* Effects handed to the fire-and-forget collaborators *)

ToastSuccess(m) == [op |-> "toast.success", arg |-> m]
ToastError(m) == [op |-> "toast.error", arg |-> m]
Navigate(p) == [op |-> "navigate", arg |-> p]
OnOpenChange(b) == [op |-> "onOpenChange", arg |-> b]

\* the useEffect on [userData?.displayName, isOpen]: the draft after it ran
Reseed(name, draft) == IF name # <<>> THEN name ELSE draft

-----------------------------------------------------------------------------
Init ==
    /\ isOpen = FALSE
    /\ user \in {"null", "u1"}
    /\ userData \in [displayName : ProfileNames]
    /\ displayName = Reseed(userData.displayName, <<>>)
    /\ darkMode = TRUE
    /\ isSaving = FALSE
    /\ hasChanges = FALSE
    /\ saveSuccess = FALSE
    /\ store \in [displayName : {userData.displayName}, darkMode : BOOLEAN,
                  email : {"e"}]
    /\ marker \in BOOLEAN
    /\ cache \in {"none", "true", "false"}
    /\ toggles = <<>>
    /\ saves = <<>>
    /\ timers = 0
    /\ logouts = <<>>
    /\ session = "active"
    /\ out = <<>>

-----------------------------------------------------------------------------
(* The dialog and the auth context *)

\* the parent sets isOpen (Dialog onOpenChange: trigger, backdrop, Escape);
\* isOpen is a dependency of the useEffect, which runs after the render
Open ==
    /\ ~isOpen
    /\ isOpen' = TRUE
    /\ displayName' = Reseed(userData.displayName, displayName)
    /\ out' = <<>>
    /\ UNCHANGED <<user, userData, darkMode, isSaving, hasChanges, saveSuccess,
                   store, marker, cache, toggles, saves, timers, logouts, session>>

Close ==
    /\ isOpen
    /\ isOpen' = FALSE
    /\ displayName' = Reseed(userData.displayName, displayName)
    /\ out' = <<>>
    /\ UNCHANGED <<user, userData, darkMode, isSaving, hasChanges, saveSuccess,
                   store, marker, cache, toggles, saves, timers, logouts, session>>

\* useAuth() hands the component a new userData.displayName
ProfileChange(name) ==
    /\ name # userData.displayName
    /\ userData' = [userData EXCEPT !.displayName = name]
    /\ displayName' = Reseed(name, displayName)
    /\ out' = <<>>
    /\ UNCHANGED <<isOpen, user, darkMode, isSaving, hasChanges, saveSuccess,
                   store, marker, cache, toggles, saves, timers, logouts, session>>

\* useAuth() hands the component a new user; none signs in once the session ended
AuthChange(u) ==
    /\ u # user
    /\ u # "null" => session = "active"
    /\ user' = u
    /\ out' = <<>>
    /\ UNCHANGED <<isOpen, userData, displayName, darkMode, isSaving, hasChanges,
                   saveSuccess, store, marker, cache, toggles, saves, timers,
                   logouts, session>>

-----------------------------------------------------------------------------
(* Display-name editing *)

\* the input handler without its slice
Truncated_NoSlice(raw) == raw

\* const value = e.target.value.slice(0, 10)
Truncated(raw) == Slice0(raw, NameLimit)

\* the input handler also dropping the just-saved feedback
HandleDisplayNameChange_ClearsSaved(raw) ==
    /\ isOpen
    /\ displayName' = Truncated(raw)
    /\ hasChanges' = TRUE
    /\ saveSuccess' = FALSE
    /\ out' = <<>>
    /\ UNCHANGED <<isOpen, user, userData, darkMode, isSaving, store, marker,
                   cache, toggles, saves, timers, logouts, session>>

HandleDisplayNameChange(raw) ==
    /\ isOpen
    /\ displayName' = Truncated(raw)
    /\ hasChanges' = TRUE
    /\ out' = <<>>
    /\ UNCHANGED <<isOpen, user, userData, darkMode, isSaving, saveSuccess,
                   store, marker, cache, toggles, saves, timers, logouts, session>>

\* the Save button bound to the dirty flag alone
SaveDisabled_IgnoresSaving == ~hasChanges

\* disabled={!hasChanges || isSaving}
SaveDisabled == ~hasChanges \/ isSaving

\* the precondition without its trim
SaveRejects_NoTrim == user = "null" \/ displayName = <<>>

\* if (!user?.uid || !displayName.trim())
SaveRejects == user = "null" \/ Trim(displayName) = <<>>

\* the handler persisting the draft as typed, untrimmed
SaveStart_NoTrim ==
    IF SaveRejects
    THEN /\ out' = <<ToastError("Le pseudo ne peut pas être vide")>>
         /\ UNCHANGED <<isSaving, saves>>
    ELSE /\ isSaving' = TRUE
         /\ saves' = Append(saves, [displayName |-> displayName,
                                    stage |-> "sent"])
         /\ out' = <<>>

\* what the handler does up to its await
SaveStart ==
    IF SaveRejects
    THEN /\ out' = <<ToastError("Le pseudo ne peut pas être vide")>>
         /\ UNCHANGED <<isSaving, saves>>
    ELSE /\ isSaving' = TRUE
         /\ saves' = Append(saves, [displayName |-> Trim(displayName),
                                    stage |-> "sent"])
         /\ out' = <<>>

HandleSaveChanges ==
    /\ isOpen
    /\ ~SaveDisabled
    /\ Len(saves) < MaxSaves
    /\ timers + Len(saves) < MaxTimers
    /\ SaveStart
    /\ UNCHANGED <<isOpen, user, userData, displayName, darkMode, hasChanges,
                   saveSuccess, store, marker, cache, toggles, timers, logouts,
                   session>>

\* updateDoc(userRef, {displayName}): the store merges the field, or fails
SaveStore(i, ok) ==
    /\ i \in 1..Len(saves)
    /\ saves[i].stage = "sent"
    /\ IF ok
       THEN /\ store' = [store EXCEPT !.displayName = saves[i].displayName]
            /\ saves' = Replace(saves, i, [saves[i] EXCEPT !.stage = "resolved"])
       ELSE /\ saves' = Replace(saves, i, [saves[i] EXCEPT !.stage = "rejected"])
            /\ UNCHANGED store
    /\ out' = <<>>
    /\ UNCHANGED <<isOpen, user, userData, displayName, darkMode, isSaving,
                   hasChanges, saveSuccess, marker, cache, toggles, timers,
                   logouts, session>>

\* the rest of the try block, then finally
SaveResolved(i) ==
    /\ i \in 1..Len(saves)
    /\ saves[i].stage = "resolved"
    /\ hasChanges' = FALSE
    /\ saveSuccess' = TRUE
    /\ out' = <<ToastSuccess("Paramètres sauvegardés")>>
    /\ timers' = timers + 1
    /\ isSaving' = FALSE
    /\ saves' = Remove(saves, i)
    /\ UNCHANGED <<isOpen, user, userData, displayName, darkMode, store, marker,
                   cache, toggles, logouts, session>>

\* the failure path without the finally block
SaveRejected_StaysSaving(i) ==
    /\ i \in 1..Len(saves)
    /\ saves[i].stage = "rejected"
    /\ out' = <<ToastError("Erreur lors de la sauvegarde")>>
    /\ saves' = Remove(saves, i)
    /\ UNCHANGED <<isOpen, user, userData, displayName, darkMode, isSaving,
                   hasChanges, saveSuccess, store, marker, cache, toggles, timers,
                   logouts, session>>

\* the failure path clearing the dirty flag as the success path does
SaveRejected_ClearsDirty(i) ==
    /\ i \in 1..Len(saves)
    /\ saves[i].stage = "rejected"
    /\ out' = <<ToastError("Erreur lors de la sauvegarde")>>
    /\ hasChanges' = FALSE
    /\ isSaving' = FALSE
    /\ saves' = Remove(saves, i)
    /\ UNCHANGED <<isOpen, user, userData, displayName, darkMode, saveSuccess,
                   store, marker, cache, toggles, timers, logouts, session>>

\* the catch block, then finally
SaveRejected(i) ==
    /\ i \in 1..Len(saves)
    /\ saves[i].stage = "rejected"
    /\ out' = <<ToastError("Erreur lors de la sauvegarde")>>
    /\ isSaving' = FALSE
    /\ saves' = Remove(saves, i)
    /\ UNCHANGED <<isOpen, user, userData, displayName, darkMode, hasChanges,
                   saveSuccess, store, marker, cache, toggles, timers, logouts,
                   session>>

\* setTimeout(() => setSaveSuccess(false), 2000): equal delays fire in order
SaveSuccessTimeout ==
    /\ timers > 0
    /\ timers' = timers - 1
    /\ saveSuccess' = FALSE
    /\ out' = <<>>
    /\ UNCHANGED <<isOpen, user, userData, displayName, darkMode, isSaving,
                   hasChanges, store, marker, cache, toggles, saves, logouts,
                   session>>

-----------------------------------------------------------------------------
(* Dark-mode toggle *)

\* JSON.stringify(newDarkMode)
Stringify(b) == IF b THEN "true" ELSE "false"

ModeToast(b) == ToastSuccess(IF b THEN "Mode sombre activé" ELSE "Mode clair activé")

\* catch: setDarkMode(!darkMode), with the darkMode this activation closed over
RolledBack(t) == ~t.darkMode

\* the toggle applying the marker optimistically, before its await
HandleDarkModeToggle_MarksEarly ==
    /\ isOpen
    /\ LET newDarkMode == ~darkMode IN
       /\ darkMode' = newDarkMode
       /\ marker' = newDarkMode
       /\ IF user # "null"
          THEN /\ Len(toggles) < MaxToggles
               /\ toggles' = Append(toggles, [darkMode |-> darkMode,
                                              newDarkMode |-> newDarkMode,
                                              stage |-> "sent"])
               /\ out' = <<>>
               /\ UNCHANGED cache
          ELSE /\ cache' = Stringify(newDarkMode)
               /\ out' = <<ModeToast(newDarkMode)>>
               /\ UNCHANGED toggles
    /\ UNCHANGED <<isOpen, user, userData, displayName, isSaving, hasChanges,
                   saveSuccess, store, saves, timers, logouts, session>>

\* the handler up to its await; without a uid it runs to its end.  The
\* activation keeps the darkMode of the render it was created in.
HandleDarkModeToggle ==
    /\ isOpen
    /\ LET newDarkMode == ~darkMode IN
       /\ darkMode' = newDarkMode
       /\ IF user # "null"
          THEN /\ Len(toggles) < MaxToggles
               /\ toggles' = Append(toggles, [darkMode |-> darkMode,
                                              newDarkMode |-> newDarkMode,
                                              stage |-> "sent"])
               /\ out' = <<>>
               /\ UNCHANGED cache
          ELSE /\ cache' = Stringify(newDarkMode)
               /\ out' = <<ModeToast(newDarkMode)>>
               /\ UNCHANGED toggles
    /\ UNCHANGED <<isOpen, user, userData, displayName, isSaving, hasChanges,
                   saveSuccess, store, marker, saves, timers, logouts, session>>

\* updateDoc(userRef, {darkMode}): the store merges the field, or fails
DarkModeStore(i, ok) ==
    /\ i \in 1..Len(toggles)
    /\ toggles[i].stage = "sent"
    /\ IF ok
       THEN /\ store' = [store EXCEPT !.darkMode = toggles[i].newDarkMode]
            /\ toggles' = Replace(toggles, i, [toggles[i] EXCEPT !.stage = "resolved"])
       ELSE /\ toggles' = Replace(toggles, i, [toggles[i] EXCEPT !.stage = "rejected"])
            /\ UNCHANGED store
    /\ out' = <<>>
    /\ UNCHANGED <<isOpen, user, userData, displayName, darkMode, isSaving,
                   hasChanges, saveSuccess, marker, cache, saves, timers, logouts,
                   session>>

\* the continuation without its localStorage.setItem
DarkModeResolved_NoCache(i) ==
    /\ i \in 1..Len(toggles)
    /\ toggles[i].stage = "resolved"
    /\ marker' = toggles[i].newDarkMode
    /\ out' = <<ModeToast(toggles[i].newDarkMode)>>
    /\ toggles' = Remove(toggles, i)
    /\ UNCHANGED <<isOpen, user, userData, displayName, darkMode, isSaving,
                   hasChanges, saveSuccess, store, cache, saves, timers, logouts,
                   session>>

\* the rest of the try block: classList.add/remove, localStorage, toast
DarkModeResolved(i) ==
    /\ i \in 1..Len(toggles)
    /\ toggles[i].stage = "resolved"
    /\ marker' = toggles[i].newDarkMode
    /\ cache' = Stringify(toggles[i].newDarkMode)
    /\ out' = <<ModeToast(toggles[i].newDarkMode)>>
    /\ toggles' = Remove(toggles, i)
    /\ UNCHANGED <<isOpen, user, userData, displayName, darkMode, isSaving,
                   hasChanges, saveSuccess, store, saves, timers, logouts, session>>

\* the catch block
DarkModeRejected(i) ==
    /\ i \in 1..Len(toggles)
    /\ toggles[i].stage = "rejected"
    /\ darkMode' = RolledBack(toggles[i])
    /\ out' = <<ToastError("Erreur lors du changement de mode")>>
    /\ toggles' = Remove(toggles, i)
    /\ UNCHANGED <<isOpen, user, userData, displayName, isSaving, hasChanges,
                   saveSuccess, store, marker, cache, saves, timers, logouts,
                   session>>

-----------------------------------------------------------------------------
(* Logout *)

HandleLogout ==
    /\ isOpen
    /\ Len(logouts) < MaxLogouts
    /\ logouts' = Append(logouts, "sent")
    /\ out' = <<>>
    /\ UNCHANGED <<isOpen, user, userData, displayName, darkMode, isSaving,
                   hasChanges, saveSuccess, store, marker, cache, toggles, saves,
                   timers, session>>

\* signOut(auth): the provider ends the session, or fails
SignOut(i, ok) ==
    /\ i \in 1..Len(logouts)
    /\ logouts[i] = "sent"
    /\ IF ok
       THEN /\ session' = "ended"
            /\ logouts' = Replace(logouts, i, "resolved")
       ELSE /\ logouts' = Replace(logouts, i, "rejected")
            /\ UNCHANGED session
    /\ out' = <<>>
    /\ UNCHANGED <<isOpen, user, userData, displayName, darkMode, isSaving,
                   hasChanges, saveSuccess, store, marker, cache, toggles, saves,
                   timers>>

\* what the continuation hands out after a resolved signOut, in order
LogoutEffects ==
    <<Navigate("/login"), OnOpenChange(FALSE), ToastSuccess("Déconnecté avec succès")>>

\* navigation moved out of the try block, so that it also follows a failure
LogoutFailureEffects_Navigates ==
    <<Navigate("/login"), ToastError("Erreur lors de la déconnexion")>>

\* what the catch block hands out
LogoutFailureEffects == <<ToastError("Erreur lors de la déconnexion")>>

\* the parent's onOpenChange(false) closes the dialog; the useEffect follows
LogoutResolved(i) ==
    /\ i \in 1..Len(logouts)
    /\ logouts[i] = "resolved"
    /\ out' = LogoutEffects
    /\ isOpen' = (isOpen /\ \A e \in 1..Len(LogoutEffects) :
                                LogoutEffects[e] # OnOpenChange(FALSE))
    /\ displayName' = IF isOpen' # isOpen
                      THEN Reseed(userData.displayName, displayName)
                      ELSE displayName
    /\ logouts' = Remove(logouts, i)
    /\ UNCHANGED <<user, userData, darkMode, isSaving, hasChanges, saveSuccess,
                   store, marker, cache, toggles, saves, timers, session>>

LogoutRejected(i) ==
    /\ i \in 1..Len(logouts)
    /\ logouts[i] = "rejected"
    /\ out' = LogoutFailureEffects
    /\ isOpen' = (isOpen /\ \A e \in 1..Len(LogoutFailureEffects) :
                                LogoutFailureEffects[e] # OnOpenChange(FALSE))
    /\ displayName' = IF isOpen' # isOpen
                      THEN Reseed(userData.displayName, displayName)
                      ELSE displayName
    /\ logouts' = Remove(logouts, i)
    /\ UNCHANGED <<user, userData, darkMode, isSaving, hasChanges, saveSuccess,
                   store, marker, cache, toggles, saves, timers, session>>

-----------------------------------------------------------------------------
(* The steps of the dialog's environment, and of each of its three controls *)

Lifecycle ==
    \/ Open
    \/ Close
    \/ \E u \in {"null", "u1"} : AuthChange(u)

NameSteps ==
    \/ \E name \in ProfileNames \cup {store.displayName} : ProfileChange(name)
    \/ \E raw \in RawInputs : HandleDisplayNameChange(raw)
    \/ HandleSaveChanges
    \/ \E i \in 1..MaxSaves, ok \in BOOLEAN : SaveStore(i, ok)
    \/ \E i \in 1..MaxSaves : SaveResolved(i)
    \/ \E i \in 1..MaxSaves : SaveRejected(i)
    \/ SaveSuccessTimeout

ThemeSteps ==
    \/ HandleDarkModeToggle
    \/ \E i \in 1..MaxToggles, ok \in BOOLEAN : DarkModeStore(i, ok)
    \/ \E i \in 1..MaxToggles : DarkModeResolved(i)
    \/ \E i \in 1..MaxToggles : DarkModeRejected(i)

LogoutSteps ==
    \/ HandleLogout
    \/ \E i \in 1..MaxLogouts, ok \in BOOLEAN : SignOut(i, ok)
    \/ \E i \in 1..MaxLogouts : LogoutResolved(i)
    \/ \E i \in 1..MaxLogouts : LogoutRejected(i)

Next == Lifecycle \/ NameSteps \/ ThemeSteps \/ LogoutSteps

Spec == Init /\ [][Next]_vars

(* The three controls write disjoint variables (the draft and the save flags; *)
(* the dark-mode flag, marker and cache; the session), so each is also        *)
(* explored on its own, with the other two at rest.                           *)

InitName == Init /\ store.darkMode = TRUE /\ marker = TRUE /\ cache = "none"
NextName == Lifecycle \/ NameSteps
SpecName == InitName /\ [][NextName]_vars

\* The store answers every request and the event loop runs every continuation
\* whose promise has settled.
FairName ==
    /\ WF_vars(\E i \in 1..MaxSaves, ok \in BOOLEAN : SaveStore(i, ok))
    /\ WF_vars(\E i \in 1..MaxSaves : SaveResolved(i))
    /\ WF_vars(\E i \in 1..MaxSaves : SaveRejected(i))
SpecNameFair == SpecName /\ FairName

InitTheme == Init /\ userData.displayName = <<"c">>
NextTheme == Lifecycle \/ ThemeSteps
SpecTheme == InitTheme /\ [][NextTheme]_vars

InitLogout == InitName
NextLogout == Lifecycle \/ LogoutSteps
SpecLogout == InitLogout /\ [][NextLogout]_vars

-----------------------------------------------------------------------------
(* Steps, as the variables show them *)

\* the continuation of the i-th suspended toggle ran on a rejected / resolved
\* updateDoc
ToggleRejectedStep(i) ==
    /\ i \in 1..Len(toggles)
    /\ toggles[i].stage = "rejected"
    /\ toggles' = Remove(toggles, i)

ToggleResolvedStep(i) ==
    /\ i \in 1..Len(toggles)
    /\ toggles[i].stage = "resolved"
    /\ toggles' = Remove(toggles, i)

\* the same for the i-th suspended save
SaveRejectedStep(i) ==
    /\ i \in 1..Len(saves)
    /\ saves[i].stage = "rejected"
    /\ saves' = Remove(saves, i)

SaveResolvedStep(i) ==
    /\ i \in 1..Len(saves)
    /\ saves[i].stage = "resolved"
    /\ saves' = Remove(saves, i)

\* s is empty or holds blanks only
Blank(s) == \A k \in 1..Len(s) : s[k] = " "

\* p is the first n code units of s (all of s when it is shorter)
IsPrefixOfLen(p, s, n) ==
    /\ Len(p) = (IF Len(s) < n THEN Len(s) ELSE n)
    /\ \A k \in 1..Len(p) : p[k] = s[k]

-----------------------------------------------------------------------------
(* Claims *)

\* C1: when the persist request of a dark-mode toggle fails, the handler ends
\* with darkMode back at the value it had right before that toggle, the
\* appearance marker untouched, and exactly one error notification emitted.
C1_FailedToggleRestoresFlag ==
    [][\A i \in 1..MaxToggles :
          ToggleRejectedStep(i) =>
              /\ darkMode' = toggles[i].darkMode
              /\ marker' = marker
              /\ out' = <<ToastError("Erreur lors du changement de mode")>>]_vars

\* C2: isSaving and saveSuccess (justSaved) are never both true.
C2_NeverSavingAndJustSaved == ~(isSaving /\ saveSuccess)

\* C3: the draft display name never exceeds 10 code units, and an input
\* event stores exactly the first 10 code units of the raw text.
C3_DraftAtMostTen ==
    /\ [](Len(displayName) <= NameLimit)
    /\ [][\A raw \in RawInputs :
             HandleDisplayNameChange(raw) =>
                 IsPrefixOfLen(displayName', raw, NameLimit)]_vars

\* C3 witness: an 11-unit raw text was typed and its first 10 units stored
C3_Witness ==
    /\ displayName = Rep("a", NameLimit)
    /\ hasChanges
    /\ Rep("a", NameLimit + 1) \in RawInputs

\* C4: Save with no user id, or with an empty or whitespace-only draft, issues
\* no request to the store, emits exactly one error notification and leaves
\* the draft, hasChanges, isSaving and saveSuccess as they were.
C4_RejectedSaveChangesNothing ==
    [][(HandleSaveChanges /\ (user = "null" \/ Blank(displayName))) =>
          /\ saves' = saves
          /\ store' = store
          /\ out' = <<ToastError("Le pseudo ne peut pas être vide")>>
          /\ displayName' = displayName
          /\ hasChanges' = hasChanges
          /\ isSaving' = isSaving
          /\ saveSuccess' = saveSuccess]_vars

\* C4 witness: Save was clicked on a whitespace-only draft with a user present
C4_Witness ==
    /\ out = <<ToastError("Le pseudo ne peut pas être vide")>>
    /\ user = "u1"
    /\ displayName = <<" ", " ">>
    /\ hasChanges
    /\ saves = <<>>

\* C5: when the store rejects a save, the handler ends with isSaving false,
\* hasChanges still true, saveSuccess and the draft untouched, and one error
\* notification emitted.
C5_FailedSaveKeepsDirty ==
    [][\A i \in 1..MaxSaves :
          SaveRejectedStep(i) =>
              /\ isSaving' = FALSE
              /\ hasChanges' = TRUE
              /\ saveSuccess' = saveSuccess
              /\ displayName' = displayName
              /\ out' = <<ToastError("Erreur lors de la sauvegarde")>>]_vars

\* C5 witness: a save has just been rejected
C5_Witness ==
    /\ out = <<ToastError("Erreur lors de la sauvegarde")>>
    /\ ~isSaving
    /\ hasChanges
    /\ saves = <<>>

\* C6: a confirmed save clears hasChanges and sets saveSuccess together with
\* isSaving becoming false, and saveSuccess stays true until the timer that
\* save started fires.  Timers of equal delay fire in the order they were
\* started, so the timer of the latest confirmed save is pending exactly
\* when any timer is.
C6_JustSavedLastsItsWindow ==
    /\ [][\A i \in 1..MaxSaves :
             SaveResolvedStep(i) =>
                 ~hasChanges' /\ saveSuccess' /\ ~isSaving']_vars
    /\ [](timers > 0 => saveSuccess)

\* C7: Save is enabled only when hasChanges is true and isSaving is false, and
\* at most one display-name persist request is in flight.
C7_OneSaveInFlight ==
    /\ Len(saves) <= 1
    /\ (ENABLED HandleSaveChanges) => (hasChanges /\ ~isSaving)

\* C7 witness: a save is in flight while the panel is open and dirty
C7_Witness ==
    /\ Len(saves) = 1
    /\ isOpen
    /\ hasChanges
    /\ isSaving
    /\ user = "u1"
    /\ ~Blank(displayName)

\* C8: the appearance marker changes only in the step that continues a toggle
\* whose persist was confirmed, and it then takes the value that persist
\* wrote; a rejected toggle and a toggle without a user leave it alone.
C8_MarkerOnlyAfterPersist ==
    [][marker' # marker =>
          \E i \in 1..MaxToggles :
              /\ ToggleResolvedStep(i)
              /\ marker' = toggles[i].newDarkMode]_vars

\* C8 witness: a confirmed toggle to light mode has just been applied
C8_Witness ==
    /\ out = <<ModeToast(FALSE)>>
    /\ user = "u1"
    /\ ~marker
    /\ ~store.darkMode
    /\ toggles = <<>>

\* C9: once the panel is shown, with a user present and no dark-mode persist
\* request in flight, the local flag and the appearance marker both equal the
\* stored darkMode.
C9_FlagMarkerAndStoreAgree ==
    (isOpen /\ user # "null" /\ toggles = <<>>) =>
        (darkMode = store.darkMode /\ marker = store.darkMode)

\* C10: the logout continuation navigates to /login once, then closes the
\* panel, then notifies success, only after signOut resolved; after a rejected
\* signOut it only notifies one error and leaves the panel as it is; nothing
\* navigates or closes while the session has not ended.
C10_LogoutGatedBySignOut ==
    /\ [][\A i \in 1..MaxLogouts :
             (i <= Len(logouts) /\ logouts' = Remove(logouts, i)) =>
                 IF logouts[i] = "resolved"
                 THEN /\ session = "ended"
                      /\ out' = <<Navigate("/login"), OnOpenChange(FALSE),
                                  ToastSuccess("Déconnecté avec succès")>>
                      /\ ~isOpen'
                 ELSE /\ logouts[i] = "rejected"
                      /\ out' = <<ToastError("Erreur lors de la déconnexion")>>
                      /\ isOpen' = isOpen]_vars
    /\ []((\E e \in 1..Len(out) : out[e].op \in {"navigate", "onOpenChange"}) =>
              session = "ended")

\* C10 witness: a logout ran to its end after signOut resolved
C10_Witness ==
    /\ out = <<Navigate("/login"), OnOpenChange(FALSE),
               ToastSuccess("Déconnecté avec succès")>>
    /\ ~isOpen
    /\ session = "ended"
    /\ logouts = <<>>

\* C11: every Closed -> Open transition of the panel leaves hasChanges,
\* isSaving and saveSuccess all false.
C11_OpenResetsFlags ==
    [][(~isOpen /\ isOpen') =>
          (~hasChanges' /\ ~isSaving' /\ ~saveSuccess')]_vars

\* C12: right after every Closed -> Open transition the draft equals the
\* profile's displayName, whatever that value is (the empty string included).
C12_OpenReseedsDraft ==
    [][(~isOpen /\ isOpen') => displayName' = userData'.displayName]_vars

\* C13: Save with no user id and a non-empty draft issues no request and
\* emits one error notification that is not the "name cannot be empty" one.
C13_MissingUserHasOwnMessage ==
    [][(HandleSaveChanges /\ user = "null" /\ ~Blank(displayName)) =>
          /\ saves' = saves
          /\ store' = store
          /\ Len(out') = 1
          /\ out'[1].op = "toast.error"
          /\ out'[1].arg # "Le pseudo ne peut pas être vide"]_vars

\* the store applied the persist of the i-th suspended toggle
TogglePersistedStep(i) ==
    /\ i \in 1..Len(toggles)
    /\ toggles[i].stage = "sent"
    /\ Len(toggles') = Len(toggles)
    /\ toggles'[i].stage = "resolved"

\* the one success notification naming mode b
NamesMode(o, b) ==
    /\ Len(o) = 1
    /\ o[1].op = "toast.success"
    /\ o[1].arg = (IF b THEN "Mode sombre activé" ELSE "Mode clair activé")

\* C14 as stated: when the persist of a toggle succeeded, its handler ends
\* with the marker at the new value, the cache holding it, the store holding
\* it under darkMode, and exactly one success notification naming the mode.
C14_ToggleEndsWithStoreAtNewValue ==
    [][\A i \in 1..MaxToggles :
          ToggleResolvedStep(i) =>
              /\ marker' = toggles[i].newDarkMode
              /\ cache' = (IF toggles[i].newDarkMode THEN "true" ELSE "false")
              /\ store'.darkMode = toggles[i].newDarkMode
              /\ NamesMode(out', toggles[i].newDarkMode)]_vars

\* C14 as amended: the store applies the persist of a toggle as a merge that
\* sets darkMode to the new value and changes no other field; the handler
\* then ends with the marker at the new value, the cache holding it, and
\* exactly one success notification naming the mode, the store left alone.
C14_ToggleAppliesNewValue ==
    [][\A i \in 1..MaxToggles :
          /\ TogglePersistedStep(i) =>
                 /\ store'.darkMode = toggles[i].newDarkMode
                 /\ store'.displayName = store.displayName
                 /\ store'.email = store.email
          /\ ToggleResolvedStep(i) =>
                 /\ marker' = toggles[i].newDarkMode
                 /\ cache' = (IF toggles[i].newDarkMode THEN "true" ELSE "false")
                 /\ store' = store
                 /\ NamesMode(out', toggles[i].newDarkMode)]_vars

\* C14 witness: a toggle to light mode ended after a later toggle's persist
\* had put dark mode in the store
C14_Witness ==
    /\ NamesMode(out, FALSE)
    /\ user = "u1"
    /\ ~marker
    /\ cache = "false"
    /\ store.darkMode

\* C15: a display-name input event changes the draft and sets hasChanges; it
\* issues no request and leaves isSaving, saveSuccess, darkMode, the marker,
\* the cache and the stored profile alone, also with a save in flight.
C15_InputTouchesDraftOnly ==
    [][\A raw \in RawInputs :
          HandleDisplayNameChange(raw) =>
              /\ hasChanges'
              /\ saves' = saves
              /\ toggles' = toggles
              /\ isSaving' = isSaving
              /\ saveSuccess' = saveSuccess
              /\ darkMode' = darkMode
              /\ marker' = marker
              /\ cache' = cache
              /\ store' = store
              /\ userData' = userData]_vars

\* C15 witness: blanks were typed over the draft while the save of its name
\* was in flight, within the just-saved window of an earlier save
C15_Witness ==
    /\ Len(saves) = 1
    /\ saves[1].displayName = <<"b">>
    /\ displayName = <<" ", " ">>
    /\ isSaving
    /\ saveSuccess
    /\ hasChanges
    /\ out = <<>>

\* C18: the cache entry is written, and a dark-mode success notification is
\* emitted, only in the step that set the marker to that same value after a
\* confirmed persist.
C18_CacheOnlyWithMarker ==
    [][(cache' # cache \/ NamesMode(out', TRUE) \/ NamesMode(out', FALSE)) =>
          \E i \in 1..MaxToggles :
              /\ ToggleResolvedStep(i)
              /\ marker' = toggles[i].newDarkMode
              /\ cache' = (IF marker' THEN "true" ELSE "false")
              /\ NamesMode(out', marker')]_vars

\* C16: every save that set isSaving is followed by a state with isSaving
\* false, whether the store confirms or rejects it; isSaving is false whenever
\* no save is in flight, so an edit makes Save available again.
C16_SavingEnds ==
    /\ isSaving ~> ~isSaving
    /\ [](saves = <<>> => ~isSaving)
    /\ []((hasChanges /\ saves = <<>>) => ~SaveDisabled)

\* C16 witness: a rejected save is about to be continued
C16_Witness ==
    /\ isSaving
    /\ Len(saves) = 1
    /\ saves[1].stage = "rejected"

\* C17: when a save is confirmed and leaves hasChanges false with no save in
\* flight, the trimmed draft is the displayName that save wrote: an edit made
\* while the save was in flight keeps the panel dirty.  (Stated for a draft
\* that is the user's text, not one the effect re-seeded from the profile.)
C17_CleanMeansSaved ==
    [][\A i \in 1..MaxSaves :
          (/\ SaveResolvedStep(i)
           /\ ~hasChanges'
           /\ saves' = <<>>
           /\ displayName' # userData'.displayName) =>
              Trim(displayName') = saves[i].displayName]_vars

\* C19: every displayName handed to the store is non-empty, has no blank at
\* either end, and is at most 10 code units long.
C19_PersistedNamesAreTrimmed ==
    \A i \in 1..Len(saves) :
        LET name == saves[i].displayName IN
        /\ Len(name) >= 1
        /\ Len(name) <= NameLimit
        /\ name[1] # " "
        /\ name[Len(name)] # " "

\* C19 witness: a padded draft is being saved as its trimmed name
C19_Witness ==
    /\ Len(saves) = 1
    /\ saves[1].stage = "sent"
    /\ saves[1].displayName = <<"b">>
    /\ displayName = <<" ", "b", " ">>

====
